---------------------------- MODULE Spec2Model ----------------------------
(***************************************************************************)
(* A model of gomcache: the ServerList selector (SetServers, Each, Select  *)
(* with its key-buffer pool) and the Client verbs (Set, Get, Delete, Ping) *)
(* with their mutex and their per-call connections.                        *)
(*                                                                         *)
(* Byte strings are sequences of byte values 0..255.  A 32-bit word is a   *)
(* pair <<hi, lo>> of 16-bit halves, so that no value leaves the range of  *)
(* the model checker's integers.                                           *)
(***************************************************************************)
EXTENDS Integers, Sequences, FiniteSets, TLC

---------------------------------------------------------------------------
(* Bounds of the model. *)

\* Number of goroutines calling into one ServerList / one Client.
NumProcs == 2

\* Longest endpoint list handed to SetServers in the exhaustive input set.
MaxServers == 2

\* Buffers the key-buffer pool retains; sync.Pool may drop any others.
MaxPool == 1

\* Datagrams one Get can receive before its deadline elapses.
MaxReads == 2

---------------------------------------------------------------------------
(* Program constants. *)

\* make([]byte, 256) in keyBufPool.New
KeyBufSize == 256

\* the 8-byte per-datagram frame header of the UDP protocol
FrameHeaderLen == 8

---------------------------------------------------------------------------
(* Bit operations on bounded naturals. *)

\* a ^ b for four-bit a and b: row a + 1, column b + 1
XorNibble ==
    <<
       << 0,  1,  2,  3,  4,  5,  6,  7,  8,  9, 10, 11, 12, 13, 14, 15>>,
       << 1,  0,  3,  2,  5,  4,  7,  6,  9,  8, 11, 10, 13, 12, 15, 14>>,
       << 2,  3,  0,  1,  6,  7,  4,  5, 10, 11,  8,  9, 14, 15, 12, 13>>,
       << 3,  2,  1,  0,  7,  6,  5,  4, 11, 10,  9,  8, 15, 14, 13, 12>>,
       << 4,  5,  6,  7,  0,  1,  2,  3, 12, 13, 14, 15,  8,  9, 10, 11>>,
       << 5,  4,  7,  6,  1,  0,  3,  2, 13, 12, 15, 14,  9,  8, 11, 10>>,
       << 6,  7,  4,  5,  2,  3,  0,  1, 14, 15, 12, 13, 10, 11,  8,  9>>,
       << 7,  6,  5,  4,  3,  2,  1,  0, 15, 14, 13, 12, 11, 10,  9,  8>>,
       << 8,  9, 10, 11, 12, 13, 14, 15,  0,  1,  2,  3,  4,  5,  6,  7>>,
       << 9,  8, 11, 10, 13, 12, 15, 14,  1,  0,  3,  2,  5,  4,  7,  6>>,
       <<10, 11,  8,  9, 14, 15, 12, 13,  2,  3,  0,  1,  6,  7,  4,  5>>,
       <<11, 10,  9,  8, 15, 14, 13, 12,  3,  2,  1,  0,  7,  6,  5,  4>>,
       <<12, 13, 14, 15,  8,  9, 10, 11,  4,  5,  6,  7,  0,  1,  2,  3>>,
       <<13, 12, 15, 14,  9,  8, 11, 10,  5,  4,  7,  6,  1,  0,  3,  2>>,
       <<14, 15, 12, 13, 10, 11,  8,  9,  6,  7,  4,  5,  2,  3,  0,  1>>,
       <<15, 14, 13, 12, 11, 10,  9,  8,  7,  6,  5,  4,  3,  2,  1,  0>>
    >>

\* a ^ b for bytes, nibble by nibble
Xor8(a, b) ==
    XorNibble[(a % 16) + 1][(b % 16) + 1]
    + 16 * XorNibble[(a \div 16) + 1][(b \div 16) + 1]

Xor16(a, b) == Xor8(a % 256, b % 256) + 256 * Xor8(a \div 256, b \div 256)

\* x ^ y on 32-bit words
XorW(x, y) == <<Xor16(x[1], y[1]), Xor16(x[2], y[2])>>

\* x >> 1 on a 32-bit word
Shr1(x) == <<x[1] \div 2, (x[2] \div 2) + 32768 * (x[1] % 2)>>

\* x >> 8 on a 32-bit word
Shr8(x) == <<x[1] \div 256, (x[2] \div 256) + 256 * (x[1] % 256)>>

---------------------------------------------------------------------------
(* hash/crc32: ChecksumIEEE, the reflected CRC-32 of polynomial 0xEDB88320 *)

\* crc32.IEEE reversed polynomial 0xedb88320
IEEEPoly == <<60856, 33568>>

RECURSIVE CrcBits(_, _)
CrcBits(c, n) ==
    IF n = 0 THEN c
    ELSE CrcBits(IF c[2] % 2 = 1 THEN XorW(Shr1(c), IEEEPoly) ELSE Shr1(c), n - 1)

\* the table entries of lo..hi, in order: entry i is i pushed through eight
\* shift steps
RECURSIVE TableEntries(_, _)
TableEntries(lo, hi) ==
    IF lo = hi THEN <<CrcBits(<<0, lo>>, 8)>>
    ELSE LET mid == (lo + hi) \div 2
         IN  TableEntries(lo, mid) \o TableEntries(mid + 1, hi)

\* crc32.IEEETable, computed once; entry i is IEEETable[i + 1]
IEEETable == TableEntries(0, 255)

\* one byte of the table-driven update: tab[byte(crc)^b] ^ (crc >> 8)
CrcUpdate(crc, b) == XorW(IEEETable[Xor8(crc[2] % 256, b) + 1], Shr8(crc))

\* the update loop over p[lo..hi], split in halves to keep the evaluation shallow
RECURSIVE CrcFold(_, _, _, _)
CrcFold(crc, p, lo, hi) ==
    IF lo > hi THEN crc
    ELSE IF lo = hi THEN CrcUpdate(crc, p[lo])
    ELSE LET mid == (lo + hi) \div 2
         IN  CHOOSE r \in {CrcFold(c, p, mid + 1, hi) :
                           c \in {CrcFold(crc, p, lo, mid)}} : TRUE

\* crc32.ChecksumIEEE(p): start from ^0, fold the bytes, complement
ChecksumIEEE(p) == XorW(CrcFold(<<65535, 65535>>, p, 1, Len(p)), <<65535, 65535>>)

---------------------------------------------------------------------------
(* Values shared by the operations. *)

Procs == 1..NumProcs

\* the nil error
NilErr == "nil"

\* gomcache.go: ErrNoServers, identified by its message
ErrNoServers == "memcache: no servers configured or available"

\* a nil net.Addr
NoAddr == [ntw |-> "", str |-> <<>>]

\* the range of a sequence
Range(s) == {s[i] : i \in 1..Len(s)}

\* strings.Contains(s, string(b)) for a one-byte substring
ContainsByte(s, b) == \E i \in 1..Len(s) : s[i] = b

\* strings.LastIndexByte, 1-based, 0 when absent
LastIndexByte(s, b) ==
    LET I == {i \in 1..Len(s) : s[i] = b}
    IN  IF I = {} THEN 0 ELSE CHOOSE i \in I : \A j \in I : j <= i

---------------------------------------------------------------------------
(* The net package, as far as SetServers uses it.  Endpoint strings are    *)
(* byte strings; the name service is a table of the environment.           *)

\* "h:1", "7:1", "7:2": host:port forms that resolve ("h" is a name of "7")
EpName == <<104, 58, 49>>
EpOne  == <<55, 58, 49>>
EpTwo  == <<55, 58, 50>>
\* "x:1": a host:port form whose host is unknown to the name service
EpBad  == <<120, 58, 49>>
\* "/s": a unix socket path
EpSock == <<47, 115>>
\* "h": neither '/' nor ':'
EpBare == <<104>>
\* "7:w": a host:port form whose port is a service name that only tcp has
EpSvc  == <<55, 58, 119>>

Endpoints == {EpName, EpOne, EpTwo, EpBad, EpSock, EpBare, EpSvc}

\* the name service: an IP literal is its own address, "h" names "7"
LookupIP(host) ==
    IF host = <<55>> \/ host = <<104>> THEN [ok |-> TRUE, ip |-> <<55>>]
    ELSE [ok |-> FALSE, ip |-> <<>>]

\* the service table: a decimal port is itself on either network, the
\* service "w" is port "8" of tcp and unknown to udp
LookupPort(ntw, port) ==
    IF port # <<>> /\ \A i \in 1..Len(port) : port[i] \in 48..57
    THEN [ok |-> TRUE, port |-> port]
    ELSE IF port = <<119>> /\ ntw = "tcp" THEN [ok |-> TRUE, port |-> <<56>>]
    ELSE [ok |-> FALSE, port |-> <<>>]

\* net.ResolveUDPAddr / net.ResolveTCPAddr on "host:port"
ResolveInet(ntw, s) ==
    LET c == LastIndexByte(s, 58)
    IN  IF c = 0 THEN [addr |-> NoAddr, err |-> "missing port in address"]
        ELSE LET q == LookupPort(ntw, SubSeq(s, c + 1, Len(s)))
                 l == LookupIP(SubSeq(s, 1, c - 1))
             IN  IF ~q.ok THEN [addr |-> NoAddr, err |-> "unknown port"]
                 ELSE IF ~l.ok THEN [addr |-> NoAddr, err |-> "no such host"]
                 ELSE [addr |-> [ntw |-> ntw, str |-> l.ip \o <<58>> \o q.port],
                       err |-> NilErr]

ResolveUDPAddr(s) == ResolveInet("udp", s)

ResolveTCPAddr(s) == ResolveInet("tcp", s)

\* net.ResolveUnixAddr("unix", s) accepts every path
ResolveUnixAddr(s) == [addr |-> [ntw |-> "unix", str |-> s], err |-> NilErr]

\* newStaticAddr: the (Network(), String()) pair of a resolved address
newStaticAddr(a) == [ntw |-> a.ntw, str |-> a.str]

\* (mutant) tcp is tried before udp for a host:port string
ResolveServerTCPFirst(server) ==
    IF ContainsByte(server, 47) THEN ResolveUnixAddr(server)
    ELSE IF ContainsByte(server, 58)
         THEN LET u == ResolveTCPAddr(server)
              IN  IF u.err # NilErr THEN ResolveUDPAddr(server) ELSE u
         ELSE ResolveTCPAddr(server)

\* the body of SetServers' loop for one endpoint string
ResolveServer(server) ==
    IF ContainsByte(server, 47) THEN ResolveUnixAddr(server)
    ELSE IF ContainsByte(server, 58)
         THEN LET u == ResolveUDPAddr(server)
              IN  IF u.err # NilErr THEN ResolveTCPAddr(server) ELSE u
         ELSE ResolveTCPAddr(server)

\* every sequence over S of length at most n
RECURSIVE SeqsUpTo(_, _)
SeqsUpTo(S, n) ==
    IF n = 0 THEN {<<>>}
    ELSE LET shorter == SeqsUpTo(S, n - 1)
         IN  shorter \cup {Append(q, x) : q \in shorter, x \in S}

---------------------------------------------------------------------------
(* Keys, and Select's arithmetic. *)

\* "a"
KeyA == <<97>>
\* "test_key"
KeyTest == <<116, 101, 115, 116, 95, 107, 101, 121>>
\* KeyBufSize + 1 bytes: 'a' throughout
KeyLongA == [i \in 1..(KeyBufSize + 1) |-> 97]
\* KeyBufSize + 1 bytes: as KeyLongA, but the last byte is 'b'
KeyLongB == [i \in 1..(KeyBufSize + 1) |-> IF i <= KeyBufSize THEN 97 ELSE 98]

\* a call names its key by its place in this table
KeyTable == <<KeyA, KeyTest, <<>>, KeyLongA, KeyLongB>>

\* keys of the concurrent specifications
ShortKeys == {1, 2}

\* keys of the sequential specification
AllKeys == DOMAIN KeyTable

\* A key buffer is a []byte of length KeyBufSize.  The state holds its prefix
\* up to the last byte ever written; the bytes after it are still zero.
BufByte(buf, i) == IF i <= Len(buf) THEN buf[i] ELSE 0

\* all KeyBufSize bytes of a buffer
BufBytes(buf) == [i \in 1..KeyBufSize |-> BufByte(buf, i)]

\* keyBufPool.New: make([]byte, 256), nothing written
NewBuf == <<>>

\* the count copy(*bufp, []byte(key)) returns: the shorter of the two lengths
CopyLen(key) == IF Len(key) < KeyBufSize THEN Len(key) ELSE KeyBufSize

\* the buffer after copy(*bufp, []byte(key))
CopyInto(buf, key) ==
    LET n == CopyLen(key)
        m == IF Len(buf) > n THEN Len(buf) ELSE n
    IN  [i \in 1..m |-> IF i <= n THEN key[i] ELSE buf[i]]

\* (mutant) Select hashes the whole buffer: *bufp
HashedBytesWhole(buf, n) == BufBytes(buf)

\* the bytes Select hashes: (*bufp)[:n]
HashedBytes(buf, n) == [i \in 1..n |-> BufByte(buf, i)]

\* w mod n for a 32-bit word w and 0 < n < 2^15
WordMod(w, n) == (((w[1] % n) * 65536) + w[2]) % n

\* 2^32 - w for a word w >= 2^31
WordNeg(w) ==
    IF w[2] = 0 THEN <<65536 - w[1], 0>> ELSE <<65535 - w[1], 65536 - w[2]>>

\* int(hash): unchanged where int has 64 bits; where it has 32, a word with
\* its top bit set becomes the negative number hash - 2^32
ToInt(hash, bits) ==
    IF bits = 32 /\ hash[1] >= 32768
    THEN [neg |-> TRUE, mag |-> WordNeg(hash)]
    ELSE [neg |-> FALSE, mag |-> hash]

\* int(hash) % n, Go's remainder: it takes the sign of the dividend
SelectIndex(hash, n, bits) ==
    LET x == ToInt(hash, bits)
    IN  IF x.neg THEN 0 - WordMod(x.mag, n) ELSE WordMod(x.mag, n)

---------------------------------------------------------------------------
(* The state. *)

VARIABLES
    addrs,      \* ServerList.addrs: the configured address sequence
    rw,         \* ServerList.mu: [writer: holder or 0, readers: set of holders]
    pool,       \* keyBufPool: the buffers it retains
    intBits,    \* the width of int on the build's platform: 32 or 64
    store,      \* the backend's memory: the set of (key, value) pairs it holds
    UseUDP,     \* Client.UseUDP
    mu,         \* Client.mu: the holder, or 0
    committed,  \* history: the sequence set by the last SetServers that returned nil
    g           \* each goroutine's current call: its position and locals

selVars == <<addrs, rw, pool, committed>>
cliVars == <<UseUDP, mu>>
envVars == <<intBits, store>>
vars == <<addrs, rw, pool, intBits, store, UseUDP, mu, committed, g>>

\* the locals of a goroutine that has made no call yet
Idle ==
    [pc |-> "idle", op |-> "", key |-> 1, value |-> <<>>, servers |-> <<>>,
     naddr |-> <<>>, i |-> 0,
     rng |-> <<>>, bufp |-> <<>>, n |-> 0, hash |-> <<0, 0>>, index |-> 0,
     res |-> NoAddr, err |-> NilErr,
     \* a verb's connection ("none", "open", "closed"), the bytes it wrote,
     \* the response it has read so far, and the item it returns
     conn |-> "none", sent |-> <<>>, resp |-> <<>>, item |-> <<>>,
     \* what the backend has sent on the connection: a sequence of messages
     inbox |-> <<>>,
     \* the address string the verb has dialled
     peer |-> <<>>,
     \* NewClient: its useUDP argument, and the client it returns (none, or one)
     useUDP |-> FALSE, client |-> <<>>,
     \* history of the call
     snap |-> <<>>, visited |-> <<>>, results |-> <<>>, trace |-> <<>>]

\* a goroutine is between calls
AtRest(p) == g[p].pc \in {"idle", "done"}

\* a call has returned: its locals are gone; what stays is the call (op, key,
\* value, servers), what it returned (res, err, item), the state it left its
\* connection in, and its history
Returned(l, res, err) ==
    [Idle EXCEPT !.pc = "done", !.op = l.op, !.key = l.key, !.value = l.value,
                 !.servers = l.servers, !.res = res, !.err = err,
                 !.conn = l.conn, !.sent = l.sent, !.resp = l.resp, !.item = l.item,
                 !.inbox = l.inbox, !.peer = l.peer,
                 !.useUDP = l.useUDP, !.client = l.client,
                 !.snap = l.snap, !.visited = l.visited, !.results = l.results,
                 !.trace = l.trace]

---------------------------------------------------------------------------
(* sync.RWMutex of the ServerList.  A reader may enter while a writer      *)
(* waits: Go holds such readers back, which removes behaviours and adds    *)
(* none.                                                                   *)

\* (mutant) Lock returns while readers still hold the mutex
CanLockDespiteReaders == rw.writer = 0

\* Lock can return: no writer and no reader holds the mutex
CanLock == rw.writer = 0 /\ rw.readers = {}

\* RLock can return: no writer holds the mutex
CanRLock == rw.writer = 0

RUnlocked(p) == [rw EXCEPT !.readers = @ \ {p}]

---------------------------------------------------------------------------
(* ServerList.SetServers *)

CallSetServers(p, inputs) ==
    /\ AtRest(p)
    /\ \E servers \in inputs :
         g' = [g EXCEPT ![p] = [Idle EXCEPT
                 !.op = "SetServers",
                 !.servers = servers,
                 \* naddr := make([]net.Addr, len(servers))
                 !.naddr = [k \in 1..Len(servers) |-> NoAddr],
                 !.i = 1,
                 !.pc = IF Len(servers) = 0 THEN "ss_lock" ELSE "ss_resolve"]]
    /\ UNCHANGED <<selVars, cliVars, envVars>>

\* (mutant) the loop stores each resolved address straight into ss.addrs
SetServersResolveInPlace(p) ==
    /\ g[p].pc = "ss_resolve"
    /\ LET r == ResolveServer(g[p].servers[g[p].i])
           l == [g[p] EXCEPT !.naddr[g[p].i] = newStaticAddr(r.addr),
                             !.i = @ + 1,
                             !.pc = IF g[p].i = Len(g[p].servers)
                                    THEN "ss_lock" ELSE "ss_resolve"]
       IN  IF r.err # NilErr
           THEN /\ g' = [g EXCEPT ![p] = Returned(@, NoAddr, r.err)]
                /\ addrs' = addrs
           ELSE /\ g' = [g EXCEPT ![p] = l]
                /\ addrs' = SubSeq(l.naddr, 1, g[p].i)
    /\ UNCHANGED <<rw, pool, committed, cliVars, envVars>>

\* the goroutine's locals when SetServers returns err: a direct call is
\* over; NewClient goes on
SetServersDone(l, err) ==
    IF l.op = "NewClient"
    THEN [l EXCEPT !.err = err, !.pc = "new_client", !.naddr = <<>>, !.i = 0]
    ELSE Returned(l, NoAddr, err)

\* one turn of the loop: resolve servers[i]; return the error, or keep the address
SetServersResolve(p) ==
    /\ g[p].pc = "ss_resolve"
    /\ LET r == ResolveServer(g[p].servers[g[p].i])
       IN  g' = [g EXCEPT ![p] =
                 IF r.err # NilErr
                 THEN SetServersDone(@, r.err)
                 ELSE [@ EXCEPT !.naddr[g[p].i] = newStaticAddr(r.addr),
                                !.i = @ + 1,
                                !.pc = IF g[p].i = Len(g[p].servers)
                                       THEN "ss_lock" ELSE "ss_resolve"]]
    /\ UNCHANGED <<selVars, cliVars, envVars>>

\* ss.mu.Lock()
SetServersLock(p) ==
    /\ g[p].pc = "ss_lock"
    /\ CanLock
    /\ rw' = [rw EXCEPT !.writer = p]
    /\ g' = [g EXCEPT ![p].pc = "ss_assign"]
    /\ UNCHANGED <<addrs, pool, committed, cliVars, envVars>>

\* ss.addrs = naddr
SetServersAssign(p) ==
    /\ g[p].pc = "ss_assign"
    /\ addrs' = g[p].naddr
    /\ g' = [g EXCEPT ![p].pc = "ss_unlock"]
    /\ UNCHANGED <<rw, pool, committed, cliVars, envVars>>

\* return nil, through the deferred ss.mu.Unlock()
SetServersReturn(p) ==
    /\ g[p].pc = "ss_unlock"
    /\ rw' = [rw EXCEPT !.writer = 0]
    /\ committed' = addrs
    /\ g' = [g EXCEPT ![p] = SetServersDone(@, NilErr)]
    /\ UNCHANGED <<addrs, pool, cliVars, envVars>>

---------------------------------------------------------------------------
(* ServerList.Each *)

\* what the callback can return: nil or one of two errors
VisitResults == {NilErr, "visit: stop", "visit: fail"}

\* the callbacks of the concurrent specification return nil or one error
FewVisitResults == {NilErr, "visit: stop"}

CallEach(p) ==
    /\ AtRest(p)
    /\ g' = [g EXCEPT ![p] = [Idle EXCEPT !.op = "Each", !.pc = "each_rlock"]]
    /\ UNCHANGED <<selVars, cliVars, envVars>>

\* ss.mu.RLock()
EachRLock(p) ==
    /\ g[p].pc = "each_rlock"
    /\ CanRLock
    /\ rw' = [rw EXCEPT !.readers = @ \cup {p}]
    /\ g' = [g EXCEPT ![p].pc = "each_range", ![p].snap = addrs]
    /\ UNCHANGED <<addrs, pool, committed, cliVars, envVars>>

\* range ss.addrs: the range expression is evaluated once
EachRange(p) ==
    /\ g[p].pc = "each_range"
    /\ g' = [g EXCEPT ![p].rng = addrs, ![p].i = 1, ![p].pc = "each_loop"]
    /\ UNCHANGED <<selVars, cliVars, envVars>>

\* (mutant) the loop ignores what f returns and goes on
EachVisitSwallow(p, outcomes) ==
    /\ g[p].pc = "each_loop"
    /\ g[p].i <= Len(g[p].rng)
    /\ \E r \in outcomes :
         g' = [g EXCEPT ![p] = [@ EXCEPT !.visited = Append(@, g[p].rng[g[p].i]),
                                         !.results = Append(@, r),
                                         !.i = @ + 1]]
    /\ UNCHANGED <<selVars, cliVars, envVars>>

\* one turn of the loop: f(a); on an error return it (deferred RUnlock)
EachVisit(p, outcomes) ==
    /\ g[p].pc = "each_loop"
    /\ g[p].i <= Len(g[p].rng)
    /\ \E r \in outcomes :
         /\ LET l == [g[p] EXCEPT !.visited = Append(@, g[p].rng[g[p].i]),
                                   !.results = Append(@, r),
                                   !.i = @ + 1]
            IN  g' = [g EXCEPT ![p] = IF r # NilErr THEN Returned(l, NoAddr, r) ELSE l]
         /\ rw' = IF r # NilErr THEN RUnlocked(p) ELSE rw
    /\ UNCHANGED <<addrs, pool, committed, cliVars, envVars>>

\* the loop is over: return nil (deferred RUnlock)
EachReturn(p) ==
    /\ g[p].pc = "each_loop"
    /\ g[p].i > Len(g[p].rng)
    /\ rw' = RUnlocked(p)
    /\ g' = [g EXCEPT ![p] = Returned(@, NoAddr, NilErr)]
    /\ UNCHANGED <<addrs, pool, committed, cliVars, envVars>>

---------------------------------------------------------------------------
(* ServerList.Select, called on its own or by a verb through SelectServer. *)

\* run-time panics
PanicIndex == "panic: index out of range"
PanicDivide == "panic: integer divide by zero"
Panics == {PanicIndex, PanicDivide}

Verbs == {"Set", "Get", "Delete", "Ping"}

\* the goroutine's locals when Select returns (res, err): a direct call is over;
\* a verb goes on in SelectServer unless a panic unwinds it
SelectDone(p, res, err) ==
    IF g[p].op \in Verbs /\ err \notin Panics
    THEN [g[p] EXCEPT !.res = res, !.err = err, !.pc = "selected",
                      !.bufp = <<>>, !.n = 0, !.hash = <<0, 0>>, !.index = 0]
    ELSE Returned(g[p], res, err)

\* a panic that unwinds a verb runs its deferred c.mu.Unlock()
MuAfter(p, err) == IF err \in Panics /\ mu = p THEN 0 ELSE mu

CallSelect(p, keys) ==
    /\ AtRest(p)
    /\ \E k \in keys :
         g' = [g EXCEPT ![p] = [Idle EXCEPT !.op = "Select", !.key = k,
                                            !.pc = "sel_rlock"]]
    /\ UNCHANGED <<selVars, cliVars, envVars>>

\* sl.mu.RLock()
SelectRLock(p) ==
    /\ g[p].pc = "sel_rlock"
    /\ CanRLock
    /\ rw' = [rw EXCEPT !.readers = @ \cup {p}]
    /\ g' = [g EXCEPT ![p].pc = "sel_len0", ![p].snap = addrs]
    /\ UNCHANGED <<addrs, pool, committed, cliVars, envVars>>

\* (mutant) Select without its check for an empty list
SelectNoServersSkipped(p) ==
    /\ g[p].pc = "sel_len0"
    /\ g' = [g EXCEPT ![p].pc = "sel_len1"]
    /\ UNCHANGED <<selVars, cliVars, envVars>>

\* if len(sl.addrs) == 0 { return nil, ErrNoServers }
SelectNoServers(p) ==
    /\ g[p].pc = "sel_len0"
    /\ IF Len(addrs) = 0
       THEN /\ g' = [g EXCEPT ![p] = SelectDone(p, NoAddr, ErrNoServers)]
            /\ rw' = RUnlocked(p)
       ELSE /\ g' = [g EXCEPT ![p].pc = "sel_len1"]
            /\ rw' = rw
    /\ UNCHANGED <<addrs, pool, committed, cliVars, envVars>>

\* (mutant) the sole address is returned for non-empty keys only
SelectSingleNonEmptyKey(p) ==
    /\ g[p].pc = "sel_len1"
    /\ IF Len(addrs) = 1
       THEN /\ g' = [g EXCEPT ![p] =
                      IF KeyTable[g[p].key] = <<>>
                      THEN SelectDone(p, NoAddr, ErrNoServers)
                      ELSE SelectDone(p, addrs[1], NilErr)]
            /\ rw' = RUnlocked(p)
       ELSE /\ g' = [g EXCEPT ![p].pc = "sel_get"]
            /\ rw' = rw
    /\ UNCHANGED <<addrs, pool, committed, cliVars, envVars>>

\* if len(sl.addrs) == 1 { return sl.addrs[0], nil }
SelectSingle(p) ==
    /\ g[p].pc = "sel_len1"
    /\ IF Len(addrs) = 1
       THEN /\ g' = [g EXCEPT ![p] = SelectDone(p, addrs[1], NilErr)]
            /\ rw' = RUnlocked(p)
       ELSE /\ g' = [g EXCEPT ![p].pc = "sel_get"]
            /\ rw' = rw
    /\ UNCHANGED <<addrs, pool, committed, cliVars, envVars>>

\* the sequence s without its k-th element
Without(s, k) == SubSeq(s, 1, k - 1) \o SubSeq(s, k + 1, Len(s))

\* the goroutine's locals after n := copy(*bufp, []byte(key)) and
\* hash := crc32.ChecksumIEEE((*bufp)[:n]) on the buffer buf it got
Hashed(l, buf) ==
    LET key == KeyTable[l.key]
        n   == CopyLen(key)
        b   == CopyInto(buf, key)
    IN  [l EXCEPT !.bufp = b, !.n = n, !.hash = ChecksumIEEE(HashedBytes(b, n)),
                  !.pc = "sel_put"]

\* bufp := keyBufPool.Get(): a retained buffer, as it was put, or a new one;
\* then the copy and the checksum, which touch nothing shared
SelectHash(p) ==
    /\ g[p].pc = "sel_get"
    /\ \/ \E k \in 1..Len(pool) :
            /\ pool' = Without(pool, k)
            /\ g' = [g EXCEPT ![p] = Hashed(@, pool[k])]
       \/ /\ pool' = pool
          /\ g' = [g EXCEPT ![p] = Hashed(@, NewBuf)]
    /\ UNCHANGED <<addrs, rw, committed, cliVars, envVars>>

\* keyBufPool.Put(bufp): the pool keeps the buffer, or drops it when full
SelectPoolPut(p) ==
    /\ g[p].pc = "sel_put"
    /\ pool' = IF Len(pool) < MaxPool THEN Append(pool, g[p].bufp) ELSE pool
    /\ g' = [g EXCEPT ![p].bufp = <<>>, ![p].pc = "sel_index"]
    /\ UNCHANGED <<addrs, rw, committed, cliVars, envVars>>

\* index := int(hash) % len(sl.addrs)
SelectComputeIndex(p) ==
    /\ g[p].pc = "sel_index"
    /\ IF Len(addrs) = 0
       THEN /\ g' = [g EXCEPT ![p] = SelectDone(p, NoAddr, PanicDivide)]
            /\ rw' = RUnlocked(p)
            /\ mu' = MuAfter(p, PanicDivide)
       ELSE /\ g' = [g EXCEPT ![p].index = SelectIndex(g[p].hash, Len(addrs), intBits),
                              ![p].pc = "sel_ret"]
            /\ rw' = rw
            /\ mu' = mu
    /\ UNCHANGED <<addrs, pool, committed, UseUDP, envVars>>

\* return sl.addrs[index], nil (deferred RUnlock); an index outside the
\* slice panics
SelectReturn(p) ==
    /\ g[p].pc = "sel_ret"
    /\ LET ix == g[p].index
           ok == ix >= 0 /\ ix < Len(addrs)
           err == IF ok THEN NilErr ELSE PanicIndex
       IN  /\ g' = [g EXCEPT ![p] =
                     SelectDone(p, IF ok THEN addrs[ix + 1] ELSE NoAddr, err)]
           /\ mu' = MuAfter(p, err)
    /\ rw' = RUnlocked(p)
    /\ UNCHANGED <<addrs, pool, committed, UseUDP, envVars>>

\* the runtime empties the pool (sync.Pool keeps nothing across a collection)
PoolCollect ==
    /\ pool # <<>>
    /\ pool' = <<>>
    /\ UNCHANGED <<addrs, rw, committed, cliVars, envVars, g>>

---------------------------------------------------------------------------
(* The specifications of the ServerList. *)

\* the state after new(ServerList); no Client is in use
InitServerList ==
    /\ addrs = <<>>
    /\ rw = [writer |-> 0, readers |-> {}]
    /\ pool = <<>>
    /\ committed = <<>>
    /\ UseUDP = FALSE
    /\ mu = 0
    /\ store = {}
    /\ g = [p \in Procs |-> Idle]

SelectorStep(p, outcomes) ==
    \/ SetServersResolve(p)
    \/ SetServersLock(p)
    \/ SetServersAssign(p)
    \/ SetServersReturn(p)
    \/ EachRLock(p)
    \/ EachRange(p)
    \/ EachVisit(p, outcomes)
    \/ EachReturn(p)
    \/ SelectRLock(p)
    \/ SelectNoServers(p)
    \/ SelectSingle(p)
    \/ SelectHash(p)
    \/ SelectPoolPut(p)
    \/ SelectComputeIndex(p)
    \/ SelectReturn(p)

(* Concurrent callers: every goroutine may reconfigure, traverse and select, *)
(* on a platform whose int has 64 bits (SpecSeq covers both widths).        *)

InitSel == InitServerList /\ intBits = 64

\* the endpoint lists the concurrent callers hand to SetServers
SelInputs == { <<EpOne, EpTwo>>, <<EpSock, EpTwo, EpName>>, <<EpTwo, EpBad>> }

\* the key the concurrent callers select: "test_key"
SelKeys == {2}

NextSel ==
    \/ \E p \in Procs : CallSetServers(p, SelInputs)
    \/ \E p \in Procs : CallEach(p)
    \/ \E p \in Procs : CallSelect(p, SelKeys)
    \/ \E p \in Procs : SelectorStep(p, FewVisitResults)
    \/ PoolCollect

SpecSel == InitSel /\ [][NextSel]_vars

(* One caller that reconfigures with every endpoint list up to MaxServers   *)
(* and traverses.                                                          *)

InitConf == InitServerList /\ intBits = 64

ConfInputs == SeqsUpTo(Endpoints, MaxServers)

NextConf ==
    \/ CallSetServers(1, ConfInputs)
    \/ CallEach(1)
    \/ SetServersResolve(1)
    \/ SetServersLock(1)
    \/ SetServersAssign(1)
    \/ SetServersReturn(1)
    \/ EachRLock(1)
    \/ EachRange(1)
    \/ EachVisit(1, VisitResults)
    \/ EachReturn(1)

SpecConf == InitConf /\ [][NextConf]_vars

(* One caller that selects every key under configurations of zero to three *)
(* addresses, on both platforms.                                           *)

InitSeq == InitServerList /\ intBits \in {32, 64}

SeqInputs == { <<>>, <<EpOne>>, <<EpOne, EpTwo>>, <<EpSock, EpTwo, EpName>>, <<EpBad>> }

NextSeq ==
    \/ CallSetServers(1, SeqInputs)
    \/ CallSelect(1, AllKeys)
    \/ SetServersResolve(1)
    \/ SetServersLock(1)
    \/ SetServersAssign(1)
    \/ SetServersReturn(1)
    \/ SelectRLock(1)
    \/ SelectNoServers(1)
    \/ SelectSingle(1)
    \/ SelectHash(1)
    \/ SelectPoolPut(1)
    \/ SelectComputeIndex(1)
    \/ SelectReturn(1)
    \/ PoolCollect

SpecSeq == InitSeq /\ [][NextSeq]_vars


(* The 64-bit half of SpecSeq. *)

InitSeq64 == InitServerList /\ intBits = 64

SpecSeq64 == InitSeq64 /\ [][NextSeq]_vars

(* Concurrent Select calls, of two keys, on a configuration that stays as   *)
(* an earlier SetServers left it, on both platforms.                        *)

\* the sequence SetServers(servers) leaves in ss.addrs when every string resolves
Configured(servers) ==
    [k \in 1..Len(servers) |-> newStaticAddr(ResolveServer(servers[k]).addr)]

PoolInputs == { <<EpOne>>, <<EpOne, EpTwo>>, <<EpSock, EpTwo, EpName>> }

InitPool ==
    /\ \E servers \in PoolInputs :
         /\ addrs = Configured(servers)
         /\ committed = Configured(servers)
    /\ rw = [writer |-> 0, readers |-> {}]
    /\ pool = <<>>
    /\ intBits \in {32, 64}
    /\ UseUDP = FALSE
    /\ mu = 0
    /\ store = {}
    /\ g = [p \in Procs |-> Idle]

NextPool ==
    \/ \E p \in Procs : CallSelect(p, ShortKeys)
    \/ \E p \in Procs : SelectRLock(p)
    \/ \E p \in Procs : SelectNoServers(p)
    \/ \E p \in Procs : SelectSingle(p)
    \/ \E p \in Procs : SelectHash(p)
    \/ \E p \in Procs : SelectPoolPut(p)
    \/ \E p \in Procs : SelectComputeIndex(p)
    \/ \E p \in Procs : SelectReturn(p)
    \/ PoolCollect

SpecPool == InitPool /\ [][NextPool]_vars

---------------------------------------------------------------------------
(* Claims about the ServerList. *)

\* a call of op has returned to goroutine p
Done(p, op) == g[p].pc = "done" /\ g[p].op = op

\* goroutine p holds the read lock inside Each or Select
InRead(p) ==
    g[p].pc \in {"each_range", "each_loop", "sel_len0", "sel_len1", "sel_get",
                 "sel_put", "sel_index", "sel_ret"}

\* some endpoint string of the list does not resolve
Unresolvable(servers) == \E k \in 1..Len(servers) : ResolveServer(servers[k]).err # NilErr

\* C3: when a SetServers call has failed on an endpoint string that does not
\* resolve, the address sequence is the one the last successful SetServers
\* left (the empty one if there was none): the failed call changed nothing,
\* so Select and Each, which read only this sequence, behave as before it.
C3_FailedSetServersKeepsAddrs ==
    \A p \in Procs :
        (Done(p, "SetServers") /\ g[p].err # NilErr) =>
            /\ Unresolvable(g[p].servers)
            /\ addrs = committed

\* C3 witness: a call failed on its second string, after its first resolved,
\* while a configuration of an earlier call was in place
C3_Witness ==
    \E p \in Procs :
        /\ Done(p, "SetServers") /\ g[p].err # NilErr
        /\ Len(g[p].servers) = 2
        /\ ResolveServer(g[p].servers[1]).err = NilErr
        /\ addrs # <<>>
        /\ addrs[1] # ResolveServer(g[p].servers[1]).addr

\* C4: while a goroutine is inside Each or Select, the address sequence is
\* the one it found on entry, and that is the sequence of the last SetServers
\* that returned; an Each traversal visits a prefix of that one sequence, in
\* order, and all of it when it returns nil; a Select that returns an address
\* returns one of that sequence.
C4_ReadersSeeOneSequence ==
    \A p \in Procs :
        /\ InRead(p) => g[p].snap = addrs /\ addrs = committed
        /\ g[p].pc = "each_loop" =>
              /\ g[p].rng = g[p].snap
              /\ g[p].visited = SubSeq(g[p].snap, 1, Len(g[p].visited))
        /\ Done(p, "Each") =>
              /\ g[p].visited = SubSeq(g[p].snap, 1, Len(g[p].visited))
              /\ g[p].err = NilErr => g[p].visited = g[p].snap
        /\ (Done(p, "Select") /\ g[p].err = NilErr) => g[p].res \in Range(g[p].snap)

\* C4 witness: a goroutine is in the middle of an Each traversal of a
\* non-empty sequence while a SetServers call with a different sequence waits
\* for the lock
C4_Witness ==
    \E p, q \in Procs :
        /\ g[p].pc = "each_loop" /\ Len(g[p].visited) = 1 /\ Len(g[p].rng) > 1
        /\ g[q].pc = "ss_lock" /\ g[q].naddr # addrs

\* C5: two Select calls that found the same address sequence, of one or more
\* addresses, and were given the same key returned the same result, whatever
\* the pool handed them and whatever calls ran in between.
C5_SelectDeterministic ==
    \A p, q \in Procs :
        ( /\ Done(p, "Select") /\ Done(q, "Select")
          /\ g[p].key = g[q].key
          /\ g[p].snap = g[q].snap
          /\ Len(g[p].snap) >= 1 ) =>
            g[p].res = g[q].res /\ g[p].err = g[q].err

\* C5 witness: two calls with the same key returned an address of a list of
\* several, and the pool holds a buffer last written with the other key
C5_Witness ==
    \E p, q \in Procs :
        /\ p # q
        /\ Done(p, "Select") /\ Done(q, "Select")
        /\ g[p].key = g[q].key
        /\ Len(g[p].snap) >= 2
        /\ g[p].err = NilErr /\ g[q].err = NilErr
        /\ \E k \in 1..Len(pool) :
             SubSeq(pool[k], 1, 1) # SubSeq(KeyTable[g[p].key], 1, 1)

\* C6 (as claimed): the index Select computes lies in 0..N-1
C6_IndexInRange ==
    \A p \in Procs :
        g[p].pc = "sel_ret" => (g[p].index >= 0 /\ g[p].index < Len(addrs))

\* C7 (as claimed): with two or more addresses, a Select that returns an
\* address returns the one at index CRC32-IEEE(all bytes of the key) mod N
C7_SelectIsCrcOfWholeKey ==
    \A p \in Procs :
        (Done(p, "Select") /\ g[p].err = NilErr /\ Len(g[p].snap) >= 2) =>
            g[p].res = g[p].snap[WordMod(ChecksumIEEE(KeyTable[g[p].key]),
                                         Len(g[p].snap)) + 1]

C9_EachVisitsInOrderUntilError ==
    \A p \in Procs :
        Done(p, "Each") =>
            LET v == g[p].visited
                r == g[p].results
            IN  /\ Len(r) = Len(v)
                /\ v = SubSeq(g[p].snap, 1, Len(v))
                /\ \A k \in 1..(Len(r) - 1) : r[k] = NilErr
                /\ g[p].err = NilErr =>
                      Len(v) = Len(g[p].snap) /\ \A k \in 1..Len(r) : r[k] = NilErr
                /\ g[p].err # NilErr => Len(r) >= 1 /\ r[Len(r)] = g[p].err

\* C9 witness: Each stopped at the first of two addresses with the visitor's
\* error
C9_Witness ==
    \E p \in Procs :
        /\ Done(p, "Each") /\ g[p].err = "visit: fail"
        /\ Len(g[p].visited) = 1 /\ Len(g[p].snap) = 2

---------------------------------------------------------------------------
(* The Client (gomcache.go).  Byte strings are sequences of byte values.   *)

\* bytes.Index, 1-based, 0 when sep does not occur in s
Index(s, sep) ==
    LET I == {i \in 1..(Len(s) - Len(sep) + 1) : SubSeq(s, i, i + Len(sep) - 1) = sep}
    IN  IF I = {} THEN 0 ELSE CHOOSE i \in I : \A j \in I : i <= j

\* (mutant) the end marker is looked for only at the end of the buffer
ContainsAtEnd(s, sep) ==
    Len(s) >= Len(sep) /\ SubSeq(s, Len(s) - Len(sep) + 1, Len(s)) = sep

\* bytes.Contains
Contains(s, sep) == Index(s, sep) # 0

\* bytes.HasPrefix
HasPrefix(s, prefix) == Len(s) >= Len(prefix) /\ SubSeq(s, 1, Len(prefix)) = prefix

\* bytes.Split(s, sep) for a non-empty sep
RECURSIVE Split(_, _)
Split(s, sep) ==
    LET i == Index(s, sep)
    IN  IF i = 0 THEN <<s>>
        ELSE <<SubSeq(s, 1, i - 1)>> \o Split(SubSeq(s, i + Len(sep), Len(s)), sep)

\* the decimal digits of n, as %d prints them
RECURSIVE Itoa(_)
Itoa(n) == IF n < 10 THEN <<48 + n>> ELSE Itoa(n \div 10) \o <<48 + (n % 10)>>

\* binary.BigEndian.PutUint16
PutUint16(v) == <<(v \div 256) % 256, v % 256>>

crlf == <<13, 10>>
resultStored == <<83, 84, 79, 82, 69, 68, 13, 10>>
resultNotFound == <<78, 79, 84, 95, 70, 79, 85, 78, 68, 13, 10>>
resultDeleted == <<68, 69, 76, 69, 84, 69, 68, 13, 10>>
resultEnd == <<69, 78, 68, 13, 10>>
versionPrefix == <<86, 69, 82, 83, 73, 79, 78>>
ValuePrefix == <<86, 65, 76, 85, 69>>

ErrCacheMiss == "memcache: cache miss"
ErrServerError == "memcache: server error"
ErrUDPDisabled == "UDP mode is not enabled"
ErrItemNotFound == "item not found"
ErrUnexpected == "unexpected response: %s"
ErrWriteUDP == "error writing to UDP: %v"
ErrReadUDP == "error reading from UDP: %v"
ErrDial == "dial: connection refused"
ErrDeadline == "set deadline: use of closed network connection"
ErrWrite == "write: broken pipe"
PanicSlice == "panic: slice bounds out of range"

\* the request frame header of Get: request id 0, sequence number 0, one
\* datagram, reserved 0
FrameHeader == PutUint16(0) \o PutUint16(0) \o PutUint16(1) \o PutUint16(0)

\* the bytes a verb writes to its connection
Request(l) ==
    LET key == KeyTable[l.key]
    IN  CASE l.op = "Set" ->
               <<115, 101, 116, 32>> \o key \o <<32>> \o Itoa(0) \o <<32>> \o Itoa(0) \o <<32>>
                 \o Itoa(Len(l.value)) \o crlf \o l.value \o crlf
          [] l.op = "Delete" -> <<100, 101, 108, 101, 116, 101, 32>> \o key \o crlf
          [] l.op = "Ping" -> versionPrefix \o crlf
          [] l.op = "Get" -> FrameHeader \o <<103, 101, 116, 32>> \o key \o crlf

\* bufio.NewReader(conn).ReadBytes('\n') on a connection that delivers the
\* bytes s and then nothing more: the line up to the first '\n', or an error
ReadBytes(s) ==
    LET i == Index(s, <<10>>)
    IN  IF i = 0 THEN [resp |-> s, err |-> "EOF"]
        ELSE [resp |-> SubSeq(s, 1, i), err |-> NilErr]

\* (mutant) Set takes every line that begins with STORED for success
ClassifyByPrefix(op, resp) ==
    CASE op = "Set" ->
           IF HasPrefix(resp, <<83, 84, 79, 82, 69, 68>>) THEN NilErr
           ELSE IF resp = resultNotFound THEN ErrCacheMiss ELSE ErrUnexpected
      [] op = "Delete" ->
           IF resp = resultDeleted THEN NilErr
           ELSE IF resp = resultNotFound THEN ErrItemNotFound ELSE ErrUnexpected
      [] op = "Ping" ->
           IF HasPrefix(resp, versionPrefix) THEN NilErr ELSE ErrUnexpected

\* what Set, Delete and Ping return for the response line resp
Classify(op, resp) ==
    CASE op = "Set" ->
           IF resp = resultStored THEN NilErr
           ELSE IF resp = resultNotFound THEN ErrCacheMiss ELSE ErrUnexpected
      [] op = "Delete" ->
           IF resp = resultDeleted THEN NilErr
           ELSE IF resp = resultNotFound THEN ErrItemNotFound ELSE ErrUnexpected
      [] op = "Ping" ->
           IF HasPrefix(resp, versionPrefix) THEN NilErr ELSE ErrUnexpected

\* what Get returns for the reassembled response raw
ParseGet(raw) ==
    IF HasPrefix(raw, ValuePrefix) /\ Len(Split(raw, crlf)) >= 2
    THEN [item |-> <<Split(raw, crlf)[2]>>, err |-> NilErr]
    ELSE IF ~HasPrefix(raw, ValuePrefix) /\ HasPrefix(raw, resultNotFound)
         THEN [item |-> <<>>, err |-> ErrCacheMiss]
         ELSE [item |-> <<>>, err |-> ErrUnexpected]

\* "STORED\r\n", "DELETED\r\n", "VERSION 1\r\n"
ReplyStored == resultStored
ReplyDeleted == resultDeleted
ReplyVersion == versionPrefix \o <<32, 49>> \o crlf

\* the connection ends before a line is complete
ReplyNone == <<>>

\* "VALUE a 0 1\r\nx\r\n", the answer to a get of "a" up to its end marker
ValueBlock == ValuePrefix \o <<32, 97, 32, 48, 32, 49>> \o crlf \o <<120>> \o crlf

\* datagrams: the whole answer; the answer without its end marker; one that
\* is shorter than the frame header
DatagramWhole == FrameHeader \o ValueBlock \o resultEnd
DatagramPart == FrameHeader \o ValueBlock
DatagramShort == <<0, 0, 0>>

TCPVerbs == {"Set", "Delete", "Ping"}

\* the values the callers store: "x"
ClientValues == {<<120>>}

\* (mutant) c.mu.Lock() returns whoever holds the mutex
MuFreeAlways == TRUE

\* c.mu.Lock() can return: nobody holds the mutex
MuFree == mu = 0

\* a verb returns err after its deferred calls: conn.Close() when the
\* connection was deferred for closing, and c.mu.Unlock()
VerbReturn(l, err, closes) ==
    Returned(IF closes THEN [l EXCEPT !.conn = "closed", !.trace = Append(@, "close")]
             ELSE l,
             l.res, err)

\* a goroutine calls Set, Delete, Ping or Get; Set with one of the values
CallVerbWith(p, keys, values) ==
    /\ AtRest(p)
    /\ \E op \in Verbs, k \in keys, v \in values :
         g' = [g EXCEPT ![p] =
                 [Idle EXCEPT !.op = op, !.key = k,
                              !.value = IF op = "Set" THEN v ELSE <<>>,
                              !.pc = IF op = "Get" THEN "get_check" ELSE "lock"]]
    /\ UNCHANGED <<selVars, cliVars, envVars>>

\* a goroutine calls Set, Delete, Ping or Get
CallVerb(p, keys) == CallVerbWith(p, keys, ClientValues)

\* (mutant) Get without its check of the UDP flag
GetCheckSkipped(p) ==
    /\ g[p].pc = "get_check"
    /\ g' = [g EXCEPT ![p].pc = "lock"]
    /\ UNCHANGED <<selVars, cliVars, envVars>>

\* if !c.UseUDP { return nil, fmt.Errorf("UDP mode is not enabled") }
GetCheck(p) ==
    /\ g[p].pc = "get_check"
    /\ g' = [g EXCEPT ![p] = IF ~UseUDP THEN Returned(@, NoAddr, ErrUDPDisabled)
                             ELSE [@ EXCEPT !.pc = "lock"]]
    /\ UNCHANGED <<selVars, cliVars, envVars>>

\* c.mu.Lock(); the verb goes on into connect, SelectServer and Select
VerbLock(p) ==
    /\ g[p].pc = "lock"
    /\ MuFree
    /\ mu' = p
    /\ g' = [g EXCEPT ![p].pc = "sel_rlock", ![p].trace = <<"lock", "select">>]
    /\ UNCHANGED <<selVars, UseUDP, envVars>>

\* (mutant) the verb dials the first configured address
DialAddrFirst(l) == l.snap[1].str

\* addr.String() of the address Select returned, which the verb dials
DialAddr(l) == l.res.str

\* the address string resolves for the network the verb dials: net.Dial
\* resolves it as a TCP address, connectUDP calls ResolveUDPAddr itself
DialResolve(l) ==
    IF l.op = "Get" THEN ResolveUDPAddr(DialAddr(l)) ELSE ResolveTCPAddr(DialAddr(l))

\* Select has returned: SelectServer and connect pass its error on; otherwise
\* connect dials addr.String(), which fails or opens the connection
Connect(p) ==
    /\ g[p].pc = "selected"
    /\ LET l == g[p]
       IN  IF l.err # NilErr
           THEN /\ g' = [g EXCEPT ![p] = VerbReturn(l, l.err, FALSE)]
                /\ mu' = 0
           ELSE IF DialResolve(l).err # NilErr
           THEN /\ g' = [g EXCEPT ![p] = VerbReturn(l, DialResolve(l).err, FALSE)]
                /\ mu' = 0
           ELSE \/ /\ g' = [g EXCEPT ![p] =
                             VerbReturn([l EXCEPT !.trace = Append(@, "dial"),
                                                  !.peer = DialAddr(l)],
                                        ErrDial, FALSE)]
                   /\ mu' = 0
                \/ /\ g' = [g EXCEPT ![p].conn = "open", ![p].pc = "deadline",
                                     ![p].trace = Append(@, "dial"),
                                     ![p].peer = DialAddr(l)]
                   /\ mu' = mu
    /\ UNCHANGED <<selVars, UseUDP, envVars>>

\* err = conn.SetDeadline(...); if err != nil { return nil, err }: connect
\* returns without closing conn, and the verb has not deferred its Close yet
ConnectSetDeadline(p) ==
    /\ g[p].pc = "deadline"
    /\ \/ /\ g' = [g EXCEPT ![p].pc = "write"]
          /\ mu' = mu
       \/ /\ g' = [g EXCEPT ![p] = VerbReturn(@, ErrDeadline, FALSE)]
          /\ mu' = 0
    /\ UNCHANGED <<selVars, UseUDP, envVars>>

\* defer conn.Close(); _, err = conn.Write(request)
VerbWrite(p) ==
    /\ g[p].pc = "write"
    /\ LET l == [g[p] EXCEPT !.trace = Append(@, "write")]
       IN  \/ /\ g' = [g EXCEPT ![p] = [l EXCEPT !.sent = Request(l), !.pc = "read"]]
              /\ mu' = mu
           \/ /\ g' = [g EXCEPT ![p] =
                        VerbReturn(l, IF l.op = "Get" THEN ErrWriteUDP ELSE ErrWrite,
                                   TRUE)]
              /\ mu' = 0
    /\ UNCHANGED <<selVars, UseUDP, envVars>>

\* Set, Delete, Ping: read one line and classify it
VerbReadLine(p, replies) ==
    /\ g[p].pc = "read"
    /\ g[p].op \in TCPVerbs
    /\ \E s \in replies :
         LET r == ReadBytes(s)
             l == [g[p] EXCEPT !.trace = Append(@, "read"), !.resp = r.resp]
         IN  g' = [g EXCEPT ![p] =
                     VerbReturn(l, IF r.err # NilErr THEN ErrServerError
                                   ELSE Classify(l.op, r.resp), TRUE)]
    /\ mu' = 0
    /\ UNCHANGED <<selVars, UseUDP, envVars>>

\* the number of receives Get has made
Receives(l) == Cardinality({i \in 1..Len(l.trace) : l.trace[i] = "read"})

\* one round of Get's loop: n, err := conn.Read(buffer);
\* responseBuffer.Write(buffer[8:n]); leave the loop on END\r\n and parse.
\* The deadline ends a read that no datagram answers.
GetRead(p, datagrams) ==
    /\ g[p].pc = "read"
    /\ g[p].op = "Get"
    /\ LET l == [g[p] EXCEPT !.trace = Append(@, "read")]
       IN  \/ /\ g' = [g EXCEPT ![p] = VerbReturn(l, ErrReadUDP, TRUE)]
              /\ mu' = 0
           \/ /\ Receives(g[p]) < MaxReads
              /\ \E d \in datagrams :
                   IF Len(d) < FrameHeaderLen
                   THEN /\ g' = [g EXCEPT ![p] = VerbReturn(l, PanicSlice, TRUE)]
                        /\ mu' = 0
                   ELSE LET raw == l.resp \o SubSeq(d, FrameHeaderLen + 1, Len(d))
                        IN  IF Contains(raw, resultEnd)
                            THEN /\ g' = [g EXCEPT ![p] =
                                           VerbReturn([l EXCEPT !.resp = raw,
                                                                !.item = ParseGet(raw).item],
                                                      ParseGet(raw).err, TRUE)]
                                 /\ mu' = 0
                            ELSE /\ g' = [g EXCEPT ![p] = [l EXCEPT !.resp = raw]]
                                 /\ mu' = mu
    /\ UNCHANGED <<selVars, UseUDP, envVars>>

---------------------------------------------------------------------------
(* Concurrent callers of one Client whose ServerList was configured at     *)
(* construction and stays as it is.                                        *)

\* the endpoint lists the Client is built from
ClientInputs == { <<>>, <<EpOne, EpTwo>>, <<EpSock>> }

\* the key the callers use: "a"
ClientKeys == {1}

\* the streams the TCP backend delivers in answer to a request
ClientReplies == {ReplyStored, ReplyDeleted, ReplyVersion, ReplyNone}

\* the datagrams the UDP backend delivers in answer to a get
ClientDatagrams == {DatagramWhole, DatagramPart, DatagramShort}

InitClient ==
    /\ \E servers \in ClientInputs :
         /\ addrs = Configured(servers)
         /\ committed = Configured(servers)
    /\ rw = [writer |-> 0, readers |-> {}]
    /\ pool = <<>>
    /\ intBits \in {32, 64}
    /\ UseUDP \in BOOLEAN
    /\ mu = 0
    /\ store = {}
    /\ g = [p \in Procs |-> Idle]

NextClient ==
    \/ \E p \in Procs : CallVerb(p, ClientKeys)
    \/ \E p \in Procs : GetCheck(p)
    \/ \E p \in Procs : VerbLock(p)
    \/ \E p \in Procs : SelectRLock(p)
    \/ \E p \in Procs : SelectNoServers(p)
    \/ \E p \in Procs : SelectSingle(p)
    \/ \E p \in Procs : SelectHash(p)
    \/ \E p \in Procs : SelectPoolPut(p)
    \/ \E p \in Procs : SelectComputeIndex(p)
    \/ \E p \in Procs : SelectReturn(p)
    \/ \E p \in Procs : Connect(p)
    \/ \E p \in Procs : ConnectSetDeadline(p)
    \/ \E p \in Procs : VerbWrite(p)
    \/ \E p \in Procs : VerbReadLine(p, ClientReplies)
    \/ \E p \in Procs : GetRead(p, ClientDatagrams)

SpecClient == InitClient /\ [][NextClient]_vars


---------------------------------------------------------------------------
(* Claims about the Client. *)

\* goroutine p is inside a verb, between the dial that opened its connection
\* and the Close that ends it: the part of the call that reads and writes
InExchange(p) == g[p].op \in Verbs /\ g[p].pc # "done" /\ g[p].conn = "open"

\* C1: under any interleaving of concurrent Set, Get, Delete and Ping calls on
\* one Client, at most one call is between opening its connection and closing
\* it, and that call holds the Client's mutex: no two verb executions
\* interleave their socket writes or reads.
C1_OneExchangeAtATime ==
    \A p, q \in Procs :
        InExchange(p) /\ InExchange(q) => p = q /\ mu = p

\* one call is reading its response while another waits for the mutex
C1_Witness ==
    \E p, q \in Procs :
        /\ p # q
        /\ InExchange(p) /\ g[p].pc = "read" /\ g[p].sent # <<>>
        /\ g[q].op \in Verbs /\ g[q].pc = "lock"

\* C2: every connection that a Set, Get, Delete or Ping call opens is closed
\* before the call returns, on every exit path, the failure to set the
\* deadline after a successful dial included: no returned call has its
\* connection still open.
C2_ReturnedCallClosedItsConnection ==
    \A p \in Procs :
        g[p].pc = "done" /\ g[p].op \in Verbs => g[p].conn # "open"

\* C10: Get on a Client whose UDP mode is disabled fails with the
\* configuration-mismatch error without any network I/O: it selects no server,
\* opens no connection, writes and reads nothing, and never takes the Client's
\* mutex, so that it returns also while another call holds it.
C10_GetWithoutUDPFailsAtOnce ==
    \A p \in Procs :
        ~UseUDP /\ g[p].op = "Get" =>
            /\ g[p].pc \in {"get_check", "done"}
            /\ mu # p
            /\ g[p].pc = "done" =>
                 /\ g[p].err = ErrUDPDisabled
                 /\ g[p].item = <<>>
                 /\ g[p].trace = <<>>
                 /\ g[p].conn = "none"
                 /\ g[p].sent = <<>>
                 /\ g[p].res = NoAddr

\* a Get has failed on the disabled UDP mode while another call, which holds
\* the mutex, waits for its response
C10_Witness ==
    \E p, q \in Procs :
        /\ p # q
        /\ ~UseUDP
        /\ Done(p, "Get") /\ g[p].err = ErrUDPDisabled
        /\ mu = q /\ g[q].pc = "read"

---------------------------------------------------------------------------
(* The backend: a memcached server that keeps what it is told to store and *)
(* answers in the text protocol, over TCP and over UDP.                    *)

\* the number a string of decimal digits denotes
RECURSIVE Atoi(_)
Atoi(d) ==
    IF d = <<>> THEN 0
    ELSE (10 * Atoi(SubSeq(d, 1, Len(d) - 1))) + (d[Len(d)] - 48)

\* the (key, value) pair of a request "set <key> <flags> <exptime> <bytes>\r\n"
\* followed by the data block: the backend takes <bytes> bytes of data
BackendSetEntry(req) ==
    LET eol    == Index(req, crlf)
        fields == Split(SubSeq(req, 1, eol - 1), <<32>>)
        len    == Atoi(fields[5])
    IN  [key |-> fields[2], value |-> SubSeq(req, eol + 2, eol + 1 + len)]

\* the key of a request "delete <key>\r\n"
BackendDeleteKey(req) == SubSeq(req, 8, Len(req) - 2)

\* the key of a datagram holding the frame header and "get <key>\r\n"
BackendGetKey(req) == SubSeq(req, FrameHeaderLen + 5, Len(req) - 2)

\* the backend's memory without its entry for key
Removed(mem, key) == {e \in mem : e.key # key}

\* the backend holds a value for key
Holds(mem, key) == \E e \in mem : e.key = key

\* the value the backend holds for key
Held(mem, key) == (CHOOSE e \in mem : e.key = key).value

\* the answer to a get, without a frame header: the VALUE header line, the
\* data block and the end marker; the end marker alone when it holds nothing
BackendGetAnswer(mem, key) ==
    IF Holds(mem, key)
    THEN ValuePrefix \o <<32>> \o key \o <<32>> \o Itoa(0) \o <<32>>
           \o Itoa(Len(Held(mem, key))) \o crlf \o Held(mem, key) \o crlf \o resultEnd
    ELSE resultEnd

\* the backend takes the request a verb has written, acts on it and sends its
\* answer: one line over TCP, one datagram over UDP
BackendServe(p) ==
    /\ g[p].pc = "read"
    /\ g[p].inbox = <<>>
    /\ LET req == g[p].sent
       IN  CASE g[p].op = "Set" ->
                  /\ store' = Removed(store, BackendSetEntry(req).key)
                                \cup {BackendSetEntry(req)}
                  /\ g' = [g EXCEPT ![p].inbox = <<resultStored>>]
             [] g[p].op = "Delete" ->
                  /\ store' = Removed(store, BackendDeleteKey(req))
                  /\ g' = [g EXCEPT ![p].inbox =
                            IF Holds(store, BackendDeleteKey(req))
                            THEN <<resultDeleted>> ELSE <<resultNotFound>>]
             [] g[p].op = "Ping" ->
                  /\ store' = store
                  /\ g' = [g EXCEPT ![p].inbox = <<ReplyVersion>>]
             [] g[p].op = "Get" ->
                  /\ store' = store
                  /\ g' = [g EXCEPT ![p].inbox =
                            <<FrameHeader \o BackendGetAnswer(store, BackendGetKey(req))>>]
    /\ UNCHANGED <<selVars, cliVars, intBits>>

\* Set, Delete, Ping read the line the backend has sent; until it has sent
\* one the read can only fail
ServedReadLine(p) ==
    VerbReadLine(p, IF g[p].inbox = <<>> THEN {ReplyNone} ELSE {g[p].inbox[1]})

\* Get receives the next datagram the backend has sent, if there is one
ServedRead(p) ==
    GetRead(p, IF Receives(g[p]) < Len(g[p].inbox)
               THEN {g[p].inbox[Receives(g[p]) + 1]} ELSE {})

---------------------------------------------------------------------------
(* One caller stores, fetches, deletes and pings against the backend, on a *)
(* Client with UDP enabled and one server.                                 *)

\* the values the caller stores: "x", "", "a\r\nb", "END\r\n"
StoreValues == { <<120>>, <<>>, <<97, 13, 10, 98>>, <<69, 78, 68, 13, 10>> }

InitStore ==
    /\ addrs = Configured(<<EpOne>>)
    /\ committed = Configured(<<EpOne>>)
    /\ rw = [writer |-> 0, readers |-> {}]
    /\ pool = <<>>
    /\ intBits = 64
    /\ UseUDP = TRUE
    /\ mu = 0
    /\ store = {}
    /\ g = [p \in Procs |-> Idle]

NextStore ==
    \/ CallVerbWith(1, ClientKeys, StoreValues)
    \/ GetCheck(1)
    \/ VerbLock(1)
    \/ SelectRLock(1)
    \/ SelectNoServers(1)
    \/ SelectSingle(1)
    \/ Connect(1)
    \/ ConnectSetDeadline(1)
    \/ VerbWrite(1)
    \/ BackendServe(1)
    \/ ServedReadLine(1)
    \/ ServedRead(1)

SpecStore == InitStore /\ [][NextStore]_vars

\* the Get of goroutine p has returned after it received the backend's answer
Fetched(p) == Done(p, "Get") /\ g[p].resp # <<>>

\* C11 (as claimed): a Fetch that follows a Store of the same key, against a
\* backend that holds the stored value and answers with the VALUE header
\* line, the data block and the end marker, returns exactly the stored value
\* bytes, whatever bytes the value has.
C11_FetchReturnsStoredValue ==
    (Fetched(1) /\ Holds(store, KeyTable[g[1].key])) =>
        /\ g[1].err = NilErr
        /\ g[1].item = <<Held(store, KeyTable[g[1].key])>>

---------------------------------------------------------------------------
(* Get's reassembly of a response that arrives in several datagrams.       *)

\* the frame header of datagram number seq (from 0) of total
FrameHeaderOf(seq, total) ==
    PutUint16(0) \o PutUint16(seq) \o PutUint16(total) \o PutUint16(0)

\* every way to cut the bytes s into n non-empty pieces, in order
RECURSIVE Cuts(_, _)
Cuts(s, n) ==
    IF n = 1 THEN (IF s = <<>> THEN {} ELSE {<<s>>})
    ELSE UNION { { <<SubSeq(s, 1, k)>> \o rest :
                     rest \in Cuts(SubSeq(s, k + 1, Len(s)), n - 1) } :
                 k \in 1..(Len(s) - 1) }

\* the datagrams that carry the pieces, each behind its frame header
Framed(pieces) ==
    [k \in 1..Len(pieces) |-> FrameHeaderOf(k - 1, Len(pieces)) \o pieces[k]]

\* the answers of the backend to a get of "a": it holds "x", it holds
\* "END\r\n", it holds nothing
FrameAnswers ==
    { BackendGetAnswer({[key |-> KeyA, value |-> <<120>>]}, KeyA),
      BackendGetAnswer({[key |-> KeyA, value |-> resultEnd]}, KeyA),
      BackendGetAnswer({}, KeyA) }

\* what the backend sends: an answer in up to MaxReads datagrams, and after
\* them possibly one datagram more
FrameScripts ==
    LET whole == UNION { UNION { {Framed(c) : c \in Cuts(a, n)} : n \in 1..MaxReads } :
                         a \in FrameAnswers }
    IN  whole \cup { sc \o <<FrameHeader \o resultEnd>> : sc \in whole }

\* the header-stripped payloads of the first n datagrams, concatenated
RECURSIVE Payloads(_, _)
Payloads(script, n) ==
    IF n = 0 THEN <<>>
    ELSE Payloads(script, n - 1) \o SubSeq(script[n], FrameHeaderLen + 1, Len(script[n]))

\* the number of the datagram after which the payloads first contain the end
\* marker; 0 when they never do
FirstEnd(script) ==
    LET K == {k \in 1..Len(script) : Index(Payloads(script, k), resultEnd) # 0}
    IN  IF K = {} THEN 0 ELSE CHOOSE k \in K : \A j \in K : k <= j

\* a goroutine calls Get
CallGet(p, keys) ==
    /\ AtRest(p)
    /\ \E k \in keys :
         g' = [g EXCEPT ![p] = [Idle EXCEPT !.op = "Get", !.key = k, !.pc = "get_check"]]
    /\ UNCHANGED <<selVars, cliVars, envVars>>

\* the backend answers a get with one of the scripts
BackendFrames(p, scripts) ==
    /\ g[p].pc = "read"
    /\ g[p].op = "Get"
    /\ g[p].inbox = <<>>
    /\ \E sc \in scripts : g' = [g EXCEPT ![p].inbox = sc]
    /\ UNCHANGED <<selVars, cliVars, envVars>>

NextFrames ==
    \/ CallGet(1, ClientKeys)
    \/ GetCheck(1)
    \/ VerbLock(1)
    \/ SelectRLock(1)
    \/ SelectNoServers(1)
    \/ SelectSingle(1)
    \/ Connect(1)
    \/ ConnectSetDeadline(1)
    \/ VerbWrite(1)
    \/ BackendFrames(1, FrameScripts)
    \/ ServedRead(1)

SpecFrames == InitStore /\ [][NextFrames]_vars

\* the Get of goroutine p has left its loop on the end marker
Reassembled(p) == Done(p, "Get") /\ Index(g[p].resp, resultEnd) # 0

\* the answer that carries the value "x"
AnswerX == BackendGetAnswer({[key |-> KeyA, value |-> <<120>>]}, KeyA)

\* C12: when the header-stripped payloads of the datagrams sent first contain
\* END\r\n after the N-th datagram (the marker may straddle two datagrams),
\* Get's loop makes exactly N receives: it never makes more than N, it leaves
\* the loop only after the N-th, and Get returns what the N payloads hold:
\* the value "x" when they make up the answer that carries "x".
C12_ExactlyNReceives ==
    LET sc == g[1].inbox
        N  == FirstEnd(sc)
    IN  (g[1].op = "Get" /\ sc # <<>> /\ N > 0) =>
            /\ Receives(g[1]) <= N
            /\ Reassembled(1) =>
                 /\ Receives(g[1]) = N
                 /\ g[1].resp = Payloads(sc, N)
                 /\ g[1].err = ParseGet(Payloads(sc, N)).err
                 /\ g[1].item = ParseGet(Payloads(sc, N)).item
                 /\ Payloads(sc, N) = AnswerX =>
                      g[1].err = NilErr /\ g[1].item = <<(<<120>>)>>

\* a Get has returned "x" after two receives of an answer whose end marker
\* straddles the two datagrams, with a third datagram left unread
C12_Witness ==
    /\ Reassembled(1)
    /\ Receives(g[1]) = 2
    /\ Len(g[1].inbox) = 3
    /\ g[1].item = <<(<<120>>)>>
    /\ Index(SubSeq(g[1].inbox[2], FrameHeaderLen + 1, Len(g[1].inbox[2])), resultEnd) = 0

---------------------------------------------------------------------------
(* Get against replies of every kind.                                      *)

\* "ERROR\r\n"
ReplyError == <<69, 82, 82, 79, 82>> \o crlf

\* the replies to a get: the answer with the value "x"; the end marker alone;
\* the not-found line, alone and followed by the end marker; the error line,
\* alone and followed by the end marker
MissReplies ==
    { AnswerX, resultEnd, resultNotFound, resultNotFound \o resultEnd,
      ReplyError, ReplyError \o resultEnd }

\* each reply in one datagram, or cut into up to MaxReads datagrams
MissScripts ==
    UNION { UNION { {Framed(c) : c \in Cuts(r, n)} : n \in 1..MaxReads } :
            r \in MissReplies }

NextMiss ==
    \/ CallGet(1, ClientKeys)
    \/ GetCheck(1)
    \/ VerbLock(1)
    \/ SelectRLock(1)
    \/ SelectNoServers(1)
    \/ SelectSingle(1)
    \/ Connect(1)
    \/ ConnectSetDeadline(1)
    \/ VerbWrite(1)
    \/ BackendFrames(1, MissScripts)
    \/ ServedRead(1)

SpecMiss == InitStore /\ [][NextMiss]_vars

\* the Get of goroutine p has returned after it received the reply
Replied(p) ==
    /\ Done(p, "Get")
    /\ g[p].inbox # <<>>
    /\ g[p].resp = Payloads(g[p].inbox, Len(g[p].inbox))

\* C13 (as claimed): when the reply to a fetch begins with NOT_FOUND\r\n, Get
\* returns ErrCacheMiss and no item; when it begins with neither the value
\* marker nor the not-found line, Get returns the unexpected-response error.
C13_NotFoundIsCacheMiss ==
    Replied(1) =>
        /\ HasPrefix(g[1].resp, resultNotFound) =>
             g[1].err = ErrCacheMiss /\ g[1].item = <<>>
        /\ (~HasPrefix(g[1].resp, resultNotFound) /\ ~HasPrefix(g[1].resp, ValuePrefix)) =>
             g[1].err = ErrUnexpected

---------------------------------------------------------------------------
(* Set, Delete and Ping against response lines of every kind.              *)

\* what the connection delivers after the request: the protocol's lines
\* "STORED\r\n", "NOT_FOUND\r\n", "DELETED\r\n", "VERSION 1\r\n", "ERROR\r\n";
\* "STORED\n", "stored\r\n", "\r\n"; two lines "STORED\r\nERROR\r\n";
\* "STORED" and nothing, after which the connection ends
LineReplies ==
    { resultStored, resultNotFound, resultDeleted, ReplyVersion, ReplyError,
      <<83, 84, 79, 82, 69, 68, 10>>,
      <<115, 116, 111, 114, 101, 100>> \o crlf,
      crlf,
      resultStored \o ReplyError,
      <<83, 84, 79, 82, 69, 68>>,
      ReplyNone }

\* a goroutine calls Set, Delete or Ping
CallLineVerb(p, keys, values) ==
    /\ AtRest(p)
    /\ \E op \in TCPVerbs, k \in keys, v \in values :
         g' = [g EXCEPT ![p] =
                 [Idle EXCEPT !.op = op, !.key = k,
                              !.value = IF op = "Set" THEN v ELSE <<>>,
                              !.pc = "lock"]]
    /\ UNCHANGED <<selVars, cliVars, envVars>>

NextLines ==
    \/ CallLineVerb(1, ShortKeys, ClientValues)
    \/ VerbLock(1)
    \/ SelectRLock(1)
    \/ SelectNoServers(1)
    \/ SelectSingle(1)
    \/ Connect(1)
    \/ ConnectSetDeadline(1)
    \/ VerbWrite(1)
    \/ VerbReadLine(1, LineReplies)

SpecLines == InitStore /\ [][NextLines]_vars

\* the call op of goroutine p has returned after it read a complete line
LineRead(p, op) ==
    /\ Done(p, op)
    /\ g[p].resp # <<>>
    /\ g[p].resp[Len(g[p].resp)] = 10

\* C14 (as claimed): when the backend answers a delete with NOT_FOUND\r\n,
\* Delete returns ErrCacheMiss; DELETED\r\n gives success; every other line
\* gives the unexpected-response error.
C14_DeleteNotFoundIsCacheMiss ==
    LineRead(1, "Delete") =>
        g[1].err = IF g[1].resp = resultNotFound THEN ErrCacheMiss
                   ELSE IF g[1].resp = resultDeleted THEN NilErr
                   ELSE ErrUnexpected

\* C15: Set classifies the line it has read: STORED\r\n gives nil,
\* NOT_FOUND\r\n gives ErrCacheMiss, every other complete line gives the
\* unexpected-response error, which carries the line; Set returns nil for no
\* line but STORED\r\n (and never without a line).
C15_SetClassifiesLine ==
    /\ LineRead(1, "Set") =>
         g[1].err = IF g[1].resp = resultStored THEN NilErr
                    ELSE IF g[1].resp = resultNotFound THEN ErrCacheMiss
                    ELSE ErrUnexpected
    /\ (Done(1, "Set") /\ g[1].err = NilErr) => g[1].resp = resultStored

\* a Set has read "STORED\n", a line other than STORED\r\n, and returned the
\* unexpected-response error
C15_Witness ==
    /\ LineRead(1, "Set")
    /\ g[1].resp = <<83, 84, 79, 82, 69, 68, 10>>
    /\ g[1].err = ErrUnexpected

\* C16 (as claimed): the request that Ping writes is exactly version\r\n, in
\* lower case, whatever the key.
C16_PingWritesLowerCaseVersion ==
    (g[1].op = "Ping" /\ g[1].sent # <<>>) =>
        g[1].sent = <<118, 101, 114, 115, 105, 111, 110>> \o crlf

---------------------------------------------------------------------------
(* Which address a verb dials, and how often. *)

\* how often the event e occurs in a call's trace
Count(l, e) == Cardinality({i \in 1..Len(l.trace) : l.trace[i] = e})

\* the address Select returns for the key under the configuration as: the
\* only one, or the one at the index computed from the key's checksum
Selected(as, key, bits) ==
    IF Len(as) = 1 THEN as[1]
    ELSE as[SelectIndex(ChecksumIEEE(HashedBytes(CopyInto(NewBuf, key), CopyLen(key))),
                        Len(as), bits) + 1]

\* the endpoint lists the Client of one caller is built from: none, one, two
\* and three servers
DialInputs == { <<>>, <<EpOne>>, <<EpOne, EpTwo>>, <<EpSock, EpTwo, EpName>> }

InitDial ==
    /\ \E servers \in DialInputs :
         /\ addrs = Configured(servers)
         /\ committed = Configured(servers)
    /\ rw = [writer |-> 0, readers |-> {}]
    /\ pool = <<>>
    /\ intBits \in {32, 64}
    /\ UseUDP = TRUE
    /\ mu = 0
    /\ store = {}
    /\ g = [p \in Procs |-> Idle]

NextDial ==
    \/ CallVerb(1, ShortKeys)
    \/ GetCheck(1)
    \/ VerbLock(1)
    \/ SelectRLock(1)
    \/ SelectNoServers(1)
    \/ SelectSingle(1)
    \/ SelectHash(1)
    \/ SelectPoolPut(1)
    \/ SelectComputeIndex(1)
    \/ SelectReturn(1)
    \/ Connect(1)
    \/ ConnectSetDeadline(1)
    \/ VerbWrite(1)
    \/ VerbReadLine(1, ClientReplies)
    \/ GetRead(1, ClientDatagrams)

SpecDial == InitDial /\ [][NextDial]_vars

\* C17: a verb call selects once, dials at most once and writes at most once;
\* what it dials is the string of the address that Select returned for its
\* key under the current configuration; when the selection fails it dials
\* nothing; when the dial, the write or the read fails the call returns an
\* error, having dialled that one address once and no other.
C17_OneDialToSelectedAddress ==
    \A p \in Procs :
        g[p].op \in Verbs =>
            /\ Count(g[p], "select") <= 1
            /\ Count(g[p], "dial") <= 1
            /\ Count(g[p], "write") <= 1
            /\ g[p].conn # "none" => Count(g[p], "dial") = 1
            /\ Count(g[p], "dial") = 1 =>
                 /\ g[p].res \in Range(addrs)
                 /\ g[p].res = Selected(addrs, KeyTable[g[p].key], intBits)
                 /\ g[p].peer = g[p].res.str
            /\ Count(g[p], "dial") = 0 => g[p].peer = <<>>
            /\ (g[p].pc = "done" /\ g[p].err \in {ErrNoServers} \cup Panics) =>
                 Count(g[p], "dial") = 0
            /\ (g[p].pc = "done"
                  /\ g[p].err \in {ErrDial, ErrWrite, ErrWriteUDP, ErrServerError, ErrReadUDP}) =>
                 Count(g[p], "dial") = 1

\* with two addresses configured, a call has returned the error of its failed
\* dial of the selected address, the second one
C17_Witness ==
    \E p \in Procs :
        /\ g[p].pc = "done" /\ g[p].op \in Verbs
        /\ g[p].err = ErrDial
        /\ Len(addrs) = 2
        /\ g[p].peer = addrs[2].str

---------------------------------------------------------------------------
(* NewClient and NewFromSelector. *)

\* DefaultTimeout, in milliseconds
DefaultTimeout == 500

\* the errors of the resolvers
ResolveErrors == {"missing port in address", "no such host"}

\* NewClient(servers, useUDP): ss := new(ServerList); ss.SetServers(servers...)
CallNewClient(p, inputs) ==
    /\ AtRest(p)
    /\ \E servers \in inputs, flag \in BOOLEAN :
         g' = [g EXCEPT ![p] = [Idle EXCEPT
                 !.op = "NewClient",
                 !.servers = servers,
                 !.useUDP = flag,
                 !.naddr = [k \in 1..Len(servers) |-> NoAddr],
                 !.i = 1,
                 !.pc = IF Len(servers) = 0 THEN "ss_lock" ELSE "ss_resolve"]]
    /\ UNCHANGED <<selVars, cliVars, envVars>>

\* if err := ss.SetServers(servers...); err != nil { return nil, ErrNoServers };
\* return NewFromSelector(ss, useUDP)
NewClientReturn(p) ==
    /\ g[p].pc = "new_client"
    /\ IF g[p].err # NilErr
       THEN /\ g' = [g EXCEPT ![p] = Returned(@, NoAddr, ErrNoServers)]
            /\ UseUDP' = UseUDP
       ELSE /\ g' = [g EXCEPT ![p] =
                      Returned([@ EXCEPT !.client = <<[UseUDP |-> g[p].useUDP,
                                                       Timeout |-> DefaultTimeout]>>],
                               NoAddr, NilErr)]
            /\ UseUDP' = g[p].useUDP
    /\ UNCHANGED <<selVars, mu, envVars>>

NextNew ==
    \/ CallNewClient(1, ConfInputs)
    \/ SetServersResolve(1)
    \/ SetServersLock(1)
    \/ SetServersAssign(1)
    \/ SetServersReturn(1)
    \/ NewClientReturn(1)

SpecNew == InitConf /\ [][NextNew]_vars

\* C18 (as claimed): NewClient returns a ready client or an
\* address-resolution failure: when some endpoint string does not resolve, no
\* client and an error that identifies a resolution failure; otherwise a
\* client with the given UDP flag, the default timeout and a selector that
\* holds the resolved addresses of all the strings.
C18_NewClientResult ==
    Done(1, "NewClient") =>
        IF Unresolvable(g[1].servers)
        THEN /\ g[1].client = <<>>
             /\ g[1].err \in ResolveErrors
        ELSE /\ g[1].err = NilErr
             /\ g[1].client = <<[UseUDP |-> g[1].useUDP, Timeout |-> DefaultTimeout]>>
             /\ UseUDP = g[1].useUDP
             /\ addrs = Configured(g[1].servers)

---------------------------------------------------------------------------
(* Claims about Select on lists of one and of no address. *)

\* C19: with exactly one address configured, Select returns that address and
\* no error for every key: the empty key, short keys and keys longer than the
\* key buffer, on either platform width.
C19_SoleAddressForEveryKey ==
    (Done(1, "Select") /\ Len(g[1].snap) = 1) =>
        /\ g[1].err = NilErr
        /\ g[1].res = g[1].snap[1]

\* a Select of the empty key has returned the sole address
C19_Witness ==
    /\ Done(1, "Select")
    /\ Len(g[1].snap) = 1
    /\ KeyTable[g[1].key] = <<>>
    /\ g[1].res = addrs[1]

\* C20 (as claimed): the error Select returns on a ServerList with no servers
\* has the message text "no servers available".
C20_NoServersMessage ==
    (Done(1, "Select") /\ Len(g[1].snap) = 0) => g[1].err = "no servers available"

---------------------------------------------------------------------------
(* Claims about the addresses SetServers stores. *)

\* the network kind the syntax of an endpoint string asks for
KindBySyntax(server) ==
    IF \E i \in 1..Len(server) : server[i] = 47 THEN "unix"
    ELSE IF \E i \in 1..Len(server) : server[i] = 58
         THEN IF ResolveUDPAddr(server).err = NilErr THEN "udp" ELSE "tcp"
         ELSE "tcp"

\* the address a resolver of that kind gives for the string
ResolvedAs(kind, server) ==
    IF kind = "unix" THEN ResolveUnixAddr(server).addr
    ELSE IF kind = "udp" THEN ResolveUDPAddr(server).addr
    ELSE ResolveTCPAddr(server).addr

\* C21: after a successful SetServers(s1..sn) the address sequence has n
\* entries, and entry i is the (network kind, string form) pair of resolving
\* si, in input order: unix for a string containing '/', otherwise udp for a
\* string containing ':' and tcp only when the udp resolution fails, and tcp
\* for a string with neither.
C21_AddrsAreResolvedInputs ==
    (Done(1, "SetServers") /\ g[1].err = NilErr) =>
        /\ Len(addrs) = Len(g[1].servers)
        /\ \A i \in 1..Len(addrs) :
             LET kind == KindBySyntax(g[1].servers[i])
             IN  /\ addrs[i].ntw = kind
                 /\ addrs[i].str = ResolvedAs(kind, g[1].servers[i]).str
                 /\ DOMAIN addrs[i] = {"ntw", "str"}

\* a call stored a udp address followed by an address that resolved as tcp
\* after its udp resolution failed
C21_Witness ==
    /\ Done(1, "SetServers") /\ g[1].err = NilErr
    /\ Len(addrs) = 2
    /\ addrs[1].ntw = "udp"
    /\ addrs[2].ntw = "tcp"
    /\ ResolveUDPAddr(g[1].servers[2]).err # NilErr

---------------------------------------------------------------------------
(* Claims about the reassembly step of Get. *)

\* C23 (as claimed): for every datagram Get receives, of any length, also one
\* shorter than the 8-byte frame header, the reassembly step appends the
\* bytes after the first 8 and does not fault on an out-of-range slice.
C23_ReassemblyNeverFaults ==
    g[1].op = "Get" => g[1].err # PanicSlice

---------------------------------------------------------------------------
(* Claims about concurrent Select calls. *)

\* C24 (as claimed): under any interleaving of Select calls on a static
\* configuration, with equal or different keys, each call succeeds and
\* returns the address the same call returns when it runs alone, whatever
\* buffer the shared pool handed it.
C24_ConcurrentSelectAsAlone ==
    \A p \in Procs :
        Done(p, "Select") =>
            /\ g[p].err = NilErr
            /\ g[p].res = Selected(g[p].snap, KeyTable[g[p].key], intBits)

---------------------------------------------------------------------------
(* Termination of the verbs.  The deadline connect and connectUDP set is    *)
(* one absolute instant (time.Now().Add(c.Timeout)); once it has passed,    *)
(* every Read and Write on the connection fails.  The backend may send      *)
(* datagrams for ever.                                                      *)

\* the longest response the loop of Get accumulates in the model
MaxResp == 16

\* datagrams that hold a frame header and nothing else
DatagramEmptyA == FrameHeaderOf(0, 2)
DatagramEmptyB == FrameHeaderOf(1, 2)

\* what the backend may send in answer to a get, again and again
LiveDatagrams ==
    {DatagramEmptyA, DatagramEmptyB, DatagramPart, DatagramWhole, DatagramShort}

\* the deadline of the connection passes while Get is in its loop (a deadline
\* that passes earlier fails the write or the first read, which VerbWrite
\* and the loop's error return cover)
DeadlineElapses(p) ==
    /\ g[p].pc = "read"
    /\ g[p].op = "Get"
    /\ g[p].conn = "open"
    /\ g' = [g EXCEPT ![p].conn = "due"]
    /\ UNCHANGED <<selVars, cliVars, envVars>>

\* one round of Get's loop with the deadline: a read after the deadline
\* fails; before it the read fails for another reason or returns the next
\* datagram (kept in inbox, the latest only), which is appended without its
\* first 8 bytes; END\r\n ends the loop
GetReadUntilDeadline(p, datagrams) ==
    /\ g[p].pc = "read"
    /\ g[p].op = "Get"
    /\ LET l == IF Receives(g[p]) < MaxReads
                THEN [g[p] EXCEPT !.trace = Append(@, "read")] ELSE g[p]
       IN  \/ /\ g' = [g EXCEPT ![p] = VerbReturn(l, ErrReadUDP, TRUE)]
              /\ mu' = 0
           \/ /\ g[p].conn = "open"
              /\ \E d \in datagrams :
                   LET m == [l EXCEPT !.inbox = <<d>>]
                   IN  IF Len(d) < FrameHeaderLen
                       THEN /\ g' = [g EXCEPT ![p] = VerbReturn(m, PanicSlice, TRUE)]
                            /\ mu' = 0
                       ELSE LET raw == m.resp \o SubSeq(d, FrameHeaderLen + 1, Len(d))
                            IN  /\ Len(raw) <= MaxResp \/ Contains(raw, resultEnd)
                                /\ IF Contains(raw, resultEnd)
                                   THEN /\ g' = [g EXCEPT ![p] =
                                                  VerbReturn([m EXCEPT !.resp = raw,
                                                                       !.item = ParseGet(raw).item],
                                                             ParseGet(raw).err, TRUE)]
                                        /\ mu' = 0
                                   ELSE /\ g' = [g EXCEPT ![p] = [m EXCEPT !.resp = raw]]
                                        /\ mu' = mu
    /\ UNCHANGED <<selVars, UseUDP, envVars>>

\* the steps of goroutine p inside a verb, after it has the mutex
VerbStep(p) ==
    \/ GetCheck(p)
    \/ SelectRLock(p)
    \/ SelectNoServers(p)
    \/ SelectSingle(p)
    \/ SelectHash(p)
    \/ SelectPoolPut(p)
    \/ SelectComputeIndex(p)
    \/ SelectReturn(p)
    \/ Connect(p)
    \/ ConnectSetDeadline(p)
    \/ VerbWrite(p)
    \/ VerbReadLine(p, ClientReplies)
    \/ GetReadUntilDeadline(p, LiveDatagrams)

NextLive ==
    \/ \E p \in Procs : CallVerb(p, ClientKeys)
    \/ \E p \in Procs : VerbLock(p)
    \/ \E p \in Procs : VerbStep(p)
    \/ \E p \in Procs : DeadlineElapses(p)

\* every goroutine inside a verb is scheduled, time passes, and sync.Mutex
\* hands the lock to a goroutine that keeps waiting for it (starvation mode)
FairLive ==
    \A p \in Procs :
        /\ WF_vars(VerbStep(p))
        /\ WF_vars(DeadlineElapses(p))
        /\ SF_vars(VerbLock(p))

SpecLive == InitClient /\ [][NextLive]_vars /\ FairLive

\* a panic that ends a verb
VerbPanics == Panics \cup {PanicSlice}

\* C22 (as claimed): every Set, Get, Delete and Ping call that waits for the
\* client mutex eventually gets it, and eventually returns with the mutex
\* released, on every path, also when the backend keeps sending datagrams
\* without the end marker.
C22_EveryVerbReturns ==
    \A p \in Procs :
        (g[p].pc = "lock") ~>
            (g[p].pc = "done" /\ g[p].err \notin VerbPanics /\ mu # p)

=============================================================================
